---- MODULE Spec2Model ----
(***************************************************************************)
(* A model of EmailClient/__init__.py: the POP3Client session manager, its *)
(* unique-id tracker (old_uid), the listing parser and the message parser, *)
(* driven against a POP3 transport whose primitives may fail.              *)
(*                                                                         *)
(* Strings are sequences of one-character strings, so that formatting and  *)
(* parsing of a UIDL line are computed and not assumed.  A dict is the     *)
(* sequence of its <<key, value>> items in insertion order.                *)
(***************************************************************************)
EXTENDS Integers, Sequences, FiniteSets, TLC

\* ------------------------------------------------------------- bounds
MaxMsgs == 2        \* messages in the server's mailbox
MaxConnects == 2    \* transports one client constructs in a run
MaxStat == 2        \* message count and mailbox size POP3.stat() reports
MaxParts == 2       \* parts msg.walk() yields for a message given to parse_email
MaxPayload == 2     \* bytes of a part's payload

\* ------------------------------------------------------------- values
UidChars == <<"a", "b", "c">>
UIDs == { <<UidChars[i]>> : i \in 1..Len(UidChars) }

Digits == <<"0", "1", "2", "3", "4", "5", "6", "7", "8", "9">>

Err(t, s) == [type |-> t, src |-> s]
NoErr == Err("none", "none")

Range(s) == { s[i] : i \in 1..Len(s) }

\* dict helpers: d is a sequence of <<key, value>> with pairwise distinct keys
Keys(d) == { d[i][1] : i \in 1..Len(d) }
Lookup(d, k) == d[CHOOSE i \in 1..Len(d) : d[i][1] = k][2]
DictSet(d, k, v) ==
    IF k \in Keys(d)
    THEN [i \in 1..Len(d) |-> IF d[i][1] = k THEN <<k, v>> ELSE d[i]]
    ELSE Append(d, <<k, v>>)

\* ------------------------------------------------------------- state
VARIABLES
    auth_method,  \* self.auth_method: "apop", "rpop" or "plain" (None / other)
    seed,         \* the old_uid argument the client was constructed with
    old_uid,      \* self.old_uid
    pop3,         \* self.pop3: 0 is None, h > 0 is the transport handle h
    opened,       \* number of transports constructed so far (handles 1..opened)
    authenticated,\* whether the transport self.pop3 holds completed authentication
    quitIssued,   \* handles on which the quit primitive was issued
    closed,       \* handles whose quit primitive succeeded (terminated)
    mailbox,      \* server: sequence of unique ids, message number = index
    junk,         \* server: non-conforming lines its UIDL listing carries
    faults,       \* the primitives the transport may fail (error_proto) in this run
    ctx,          \* guarded block: "none" (client not used in a with statement),
                  \* "with" (about to enter), "body" (inside), "left"
    enterHandle,  \* handle constructed by the last __enter__, 0 if none
    op,           \* last public operation invoked
    err,          \* what it raised to the caller (NoErr: returned normally)
    ret,          \* what it returned (a dict; <<>> for None)
    arg,          \* the argument it was given (<<>> when it takes none)
    calls,        \* transport primitives it issued, in order
    msg,          \* parse_email: the parts msg.walk() yields for its argument
    msg_data,     \* parse_email: its outcome (NotCalled before the call)
    func,         \* wrapper: __name__ of the transport method last invoked
    result,       \* wrapper: what the method itself did (returned or raised)
    caller,       \* wrapper: what reached the caller (returned or raised)
    log           \* wrapper: the records self.logger was given, in order

sessionVars == <<auth_method, seed, old_uid, pop3, opened, authenticated, quitIssued,
                 closed, mailbox, junk, faults, ctx, enterHandle, op, err, ret, arg,
                 calls>>
unitVars == <<msg, msg_data, func, result, caller, log>>
vars == <<auth_method, seed, old_uid, pop3, opened, authenticated, quitIssued, closed,
          mailbox, junk, faults, ctx, enterHandle, op, err, ret, arg, calls,
          msg, msg_data, func, result, caller, log>>

\* Nothing called yet / nothing returned or raised yet.
NotCalled == [kind |-> "none"]

\* ------------------------------------------------------------- server side
\* The server's decimal rendering of a message number in a UIDL line.
RECURSIVE IntToStr(_)
IntToStr(n) ==
    IF n < 10 THEN <<Digits[n + 1]>>
    ELSE IntToStr(n \div 10) \o <<Digits[(n % 10) + 1]>>

\* The lines POP3.uidl() returns as result[1]: "<number> <unique_id>" for each
\* message, followed by whatever non-conforming lines the server adds.
UidlLines ==
    [n \in 1..Len(mailbox) |-> IntToStr(n) \o <<" ">> \o mailbox[n]] \o junk

\* Non-conforming listing lines: no space, two spaces, a non-numeric number.
JunkLines == { <<"a">>, <<"1", " ", "a", " ", "b">>, <<"a", " ", "b">> }

\* Sequences of distinct unique ids, each set of ids in one order.
Ascending(l) ==
    \A i, j \in 1..Len(l) :
        i < j => \E x, y \in 1..Len(UidChars) :
                    x < y /\ l[i] = <<UidChars[x]>> /\ l[j] = <<UidChars[y]>>

\* Mailboxes: unique ids are never shared by two messages.
Mailboxes ==
    { m \in UNION { [1..n -> UIDs] : n \in 0..MaxMsgs } : Ascending(m) }

\* The parts email.message_from_bytes(...).walk() yields for the message stored
\* under a unique id (a unique id is never reused for a different message):
\* each part's decoded payload bytes and declared charset ("" when none).
StoredParts(uid) ==
    CASE uid = <<"a">> -> << [payload |-> <<104, 105>>, charset |-> "utf-8"] >>
      [] uid = <<"b">> -> << [payload |-> <<>>, charset |-> ""],
                             [payload |-> <<104, 255>>, charset |-> "us-ascii"],
                             [payload |-> <<1, 255>>, charset |-> ""] >>
      [] OTHER         -> << [payload |-> <<104>>, charset |-> "x-unknown"] >>

\* ------------------------------------------------------------- parsing
\* str.split(' ') of line 203: the pieces between every occurrence of sep.
RECURSIVE Split(_, _)
Split(s, sep) ==
    IF \E i \in 1..Len(s) : s[i] = sep
    THEN LET i == CHOOSE k \in 1..Len(s) :
                      s[k] = sep /\ \A j \in 1..(k - 1) : s[j] # sep
         IN  <<SubSeq(s, 1, i - 1)>> \o Split(SubSeq(s, i + 1, Len(s)), sep)
    ELSE <<s>>

IsDigit(c) == \E d \in 1..10 : Digits[d] = c
DigitVal(c) == (CHOOSE d \in 1..10 : Digits[d] = c) - 1

\* int(msg_no) of line 204
IntOk(s) == Len(s) > 0 /\ \A i \in 1..Len(s) : IsDigit(s[i])
RECURSIVE StrToInt(_)
StrToInt(s) ==
    IF Len(s) = 0 THEN 0
    ELSE StrToInt(SubSeq(s, 1, Len(s) - 1)) * 10 + DigitVal(s[Len(s)])

\* A faulty variant of _parse_unique_id: split(' ', 1), the line is cut at
\* its first space alone.
_parse_unique_id_first_space(line) ==
    LET pieces == Split(line, " ") IN
    IF Len(pieces) < 2 \/ ~IntOk(pieces[1])
    THEN [err |-> Err("ValueError", "_parse_unique_id"), uid |-> <<>>, msg_no |-> 0]
    ELSE [err |-> NoErr, uid |-> SubSeq(line, Len(pieces[1]) + 2, Len(line)),
          msg_no |-> StrToInt(pieces[1])]

\* _parse_unique_id: the unpacking of line 203 needs exactly two pieces.
_parse_unique_id(line) ==
    LET pieces == Split(line, " ") IN
    IF Len(pieces) # 2 \/ ~IntOk(pieces[1])
    THEN [err |-> Err("ValueError", "_parse_unique_id"), uid |-> <<>>, msg_no |-> 0]
    ELSE [err |-> NoErr, uid |-> pieces[2], msg_no |-> StrToInt(pieces[1])]

\* bytes.decode(charset, "ignore"): undecodable bytes are dropped.
KnownCharsets == {"utf-8", "us-ascii"}
Decodable(b) == b < 128
Decode(payload) == SelectSeq(payload, Decodable)

\* parse_email, lines 32-48: the loop over msg.walk().
RECURSIVE WalkParts(_, _, _)
WalkParts(parts, i, body_parts) ==
    IF i > Len(parts) THEN [err |-> NoErr, Body |-> body_parts]
    ELSE LET part == parts[i] IN
         IF part.payload = <<>> THEN WalkParts(parts, i + 1, body_parts)
         ELSE IF part.charset # "" /\ part.charset \notin KnownCharsets
         THEN [err |-> Err("LookupError", "parse_email"), Body |-> body_parts]
         ELSE LET data == IF part.charset # ""
                          THEN [kind |-> "str", v |-> Decode(part.payload)]
                          ELSE [kind |-> "bytes", v |-> part.payload]
              IN  WalkParts(parts, i + 1, Append(body_parts, [data |-> data]))

parse_email(parts) == WalkParts(parts, 1, <<>>)

\* ------------------------------------------------------------- transport
\* One primitive issued on handle h; ok is whether it returned normally
\* (otherwise it raised poplib.error_proto).
Call(h, name, a, ok) == [h |-> h, name |-> name, arg |-> a, ok |-> ok]

QuitHandles(cs) == { cs[i].h : i \in { j \in 1..Len(cs) : cs[j].name = "quit" } }
QuitOkHandles(cs) ==
    { cs[i].h : i \in { j \in 1..Len(cs) : cs[j].name = "quit" /\ cs[j].ok } }

\* Whether a call of primitive name may raise error_proto in this run.
MayFail(name) == IF name \in faults THEN BOOLEAN ELSE {FALSE}
MayFailAt(name, n) == IF name \in faults THEN 0..n ELSE {0}

\* A mailbox primitive succeeds only on an authenticated transport, and retr
\* only for a message number of the mailbox; fails is the transport failing.
UidlOk(fails) == ~fails /\ authenticated
RetrOk(msg_no, fails) == ~fails /\ authenticated /\ msg_no \in 1..Len(mailbox)
RsetOk(fails) == ~fails /\ authenticated

\* ------------------------------------------------------------- instrumentation
\* Values a transport method returns, and exceptions: bytes and str carry
\* their code points in v, a (response, lines, octets) tuple the code points
\* of its response, a (count, size) tuple its two numbers, a dict its keys;
\* an exception carries its type and its args.
Bytes(v) == [kind |-> "bytes", v |-> v]
Str(v) == [kind |-> "str", v |-> v]
Tuple(v) == [kind |-> "tuple", v |-> v]
Dict(v) == [kind |-> "dict", v |-> v]
None == [kind |-> "NoneType", v |-> <<>>]
Exc(t, a) == [type |-> t, args |-> a]

\* What a call did: returned a value, or raised an exception.
Returned(v) == [kind |-> "returned", v |-> v]
Raised(e) == [kind |-> "raised", v |-> e]

\* bytes.decode() of lines 243-252: strict UTF-8, raising on a byte that is
\* not decodable.
decode(b) ==
    IF \A i \in 1..Len(b.v) : Decodable(b.v[i])
    THEN [exc |-> None, text |-> [fmt |-> "decoded", v |-> b.v]]
    ELSE [exc |-> Exc("UnicodeDecodeError", <<>>), text |-> [fmt |-> "decoded", v |-> <<>>]]

\* The method names of the table of lines 240-255.
SimpleCommands ==
    {"getwelcome", "user", "pass_", "dele", "noop", "rset", "quit", "rpop", "apop",
     "utf8", "stls"}
FirstLineCommands == {"retr", "top"}
ListingCommands == {"list", "uidl"}
Instrumented(name) ==
    name \in SimpleCommands \cup FirstLineCommands \cup ListingCommands
              \cup {"capa", "stat"}

\* get_message, lines 240-255, for the method called name.
get_message(name, r) ==
    IF name \in SimpleCommands THEN decode(r)
    ELSE IF name \in FirstLineCommands THEN decode(Bytes(r.v))
    ELSE IF name = "capa" THEN [exc |-> None, text |-> [fmt |-> "str", v |-> r.v]]
    ELSE IF name \in ListingCommands
    THEN IF r.kind = "tuple" THEN decode(Bytes(r.v)) ELSE decode(r)
    ELSE [exc |-> None, text |-> [fmt |-> "massage_count=, mailbox_size=", v |-> r.v]]

\* "if msg:" of line 264: str(dict) and the f-string are never empty.
Truthy(text) == text.fmt # "decoded" \/ text.v # <<>>

\* The records self.logger is given: info (line 265), error (line 268) and
\* exception (line 271, at error level with the traceback).
LogRecord(level, tag, text, exc_info) ==
    [level |-> level, tag |-> tag, text |-> text, exc_info |-> exc_info]
UnexpectedError == [fmt |-> "UnexpectedError", v |-> <<>>]

\* wrapper, lines 259-274, around the method called name, r being what the
\* method itself did.  An exception raised inside the error_proto handler
\* (line 268) is not caught by the handler after it.
wrapper(name, r) ==
    IF r.kind = "returned"
    THEN LET m == get_message(name, r.v) IN
         IF m.exc # None
         THEN [caller |-> Raised(m.exc),
               log |-> <<LogRecord("ERROR", "", UnexpectedError, TRUE)>>]
         ELSE [caller |-> r,
               log |-> IF Truthy(m.text)
                       THEN <<LogRecord("INFO", name, m.text, FALSE)>>
                       ELSE <<>>]
    ELSE IF r.v.type = "error_proto"
    THEN IF r.v.args = <<>>
         THEN [caller |-> Raised(Exc("IndexError", <<>>)), log |-> <<>>]
         ELSE IF r.v.args[1].kind # "bytes"
         THEN [caller |-> Raised(Exc("AttributeError", <<>>)), log |-> <<>>]
         ELSE LET m == decode(r.v.args[1]) IN
              IF m.exc # None
              THEN [caller |-> Raised(m.exc), log |-> <<>>]
              ELSE [caller |-> r, log |-> <<LogRecord("ERROR", "", m.text, FALSE)>>]
    ELSE [caller |-> r, log |-> <<LogRecord("ERROR", "", UnexpectedError, TRUE)>>]

\* add_POP3_res_logging, lines 237-257 and 274: the wrapper for a name of
\* the table, the method itself for any other.
add_POP3_res_logging(name, r) ==
    IF Instrumented(name) THEN wrapper(name, r) ELSE [caller |-> r, log |-> <<>>]

\* The server's responses on success, which start with "+" (poplib raises
\* error_proto for any other): "+OK", "+" and "+" with a byte that is not
\* UTF-8; and its responses on failure, "-E" and "-" with such a byte.
OkResponses == { <<43, 79, 75>>, <<43>>, <<43, 255>> }
ErrResponses == { <<45, 69>>, <<45, 255>> }

\* The methods the metaclass finds in dir(instance) (lines 280-283) that
\* the model invokes: those POP3Client uses, list, top and one that is not
\* in the table.
ClientPrimitives ==
    {"user", "pass_", "apop", "rpop", "uidl", "retr", "dele", "rset", "stat", "capa",
     "noop", "quit"}
Methods == ClientPrimitives \cup {"list", "top", "close"}

\* What poplib's method called name returns.
Results(name) ==
    IF name \in SimpleCommands THEN { Bytes(b) : b \in OkResponses }
    ELSE IF name \in FirstLineCommands
    THEN { Tuple(b) : b \in OkResponses }
    ELSE IF name \in ListingCommands
    THEN { Tuple(b) : b \in OkResponses }
            \cup { Bytes(b) : b \in OkResponses }
    ELSE IF name = "capa" THEN { Dict(<<>>), Dict(<<1>>) }
    ELSE IF name = "stat"
    THEN { Tuple(<<n, m>>) : n \in 0..MaxStat, m \in 0..MaxStat }
    ELSE { None }

\* What it raises: error_proto with the server's response (bytes) or with
\* a str of poplib's own ('-ERR EOF'), or an error of the socket.
Raises(name) ==
    IF name = "close" THEN { Exc("OSError", <<>>) }
    ELSE { Exc("error_proto", <<Bytes(b)>>) : b \in ErrResponses }
            \cup { Exc("error_proto", <<Str(<<45, 69>>)>>), Exc("OSError", <<>>) }

\* ------------------------------------------------------------- session
\* A faulty variant of AuthSteps: the password is sent before the user.
AuthSteps_password_first(m) ==
    CASE m = "apop" -> <<"apop">>
      [] m = "rpop" -> <<"pass_", "rpop">>
      [] OTHER      -> <<"pass_", "user">>

\* connect, lines 106-113: the authentication primitives by auth_method.
AuthSteps(m) ==
    CASE m = "apop" -> <<"apop">>
      [] m = "rpop" -> <<"rpop", "pass_">>
      [] OTHER      -> <<"user", "pass_">>

\* connect, lines 107-113: what each authentication primitive is given.
AuthArgs(name) ==
    CASE name = "apop"  -> <<"self.user", "self.password">>
      [] name = "pass_" -> <<"self.password">>
      [] OTHER          -> <<"self.user">>

\* quit, lines 122-123, with self.pop3 = p: None has no attribute quit; a
\* failing primitive leaves self.pop3 set.
quit(p, quitFails) ==
    IF p = 0
    THEN [err |-> Err("AttributeError", "quit"), ret |-> <<>>, pop3 |-> 0,
          calls |-> <<>>]
    ELSE IF quitFails
    THEN [err |-> Err("error_proto", "quit"), ret |-> <<>>, pop3 |-> p,
          calls |-> <<Call(p, "quit", 0, FALSE)>>]
    ELSE [err |-> NoErr, ret |-> <<>>, pop3 |-> 0,
          calls |-> <<Call(p, "quit", 0, TRUE)>>]

\* connect, lines 104-116.  failAt = 0: every step succeeds; failAt = k: step
\* k raises, and the handler calls self.quit() and then re-raises.
connect(ctorFails, failAt, quitFails) ==
    IF ctorFails
    THEN [err |-> Err("OSError", "POP3"), ret |-> <<>>, pop3 |-> pop3,
          calls |-> <<>>, h |-> 0, authed |-> FALSE]
    ELSE LET h == opened + 1
             steps == AuthSteps(auth_method)
             n == IF failAt = 0 THEN Len(steps) ELSE failAt
             authCalls == [i \in 1..n |->
                              Call(h, steps[i], AuthArgs(steps[i]), i # failAt)]
         IN  IF failAt = 0
             THEN [err |-> NoErr, ret |-> <<>>, pop3 |-> h, calls |-> authCalls,
                   h |-> h, authed |-> TRUE]
             ELSE LET q == quit(h, quitFails) IN
                  [err |-> IF q.err # NoErr THEN q.err
                           ELSE Err("error_proto", steps[failAt]),
                   ret |-> <<>>, pop3 |-> q.pop3, calls |-> authCalls \o q.calls,
                   h |-> h, authed |-> FALSE]

\* ------------------------------------------------------------- tracker
\* get_all_unique_id, line 133: the dict built from the parsed lines; the
\* first line that does not parse raises out of the comprehension.
RECURSIVE ParseListing(_, _, _)
ParseListing(lines, i, d) ==
    IF i > Len(lines) THEN [err |-> NoErr, dict |-> d]
    ELSE LET x == _parse_unique_id(lines[i]) IN
         IF x.err # NoErr THEN [err |-> x.err, dict |-> <<>>]
         ELSE ParseListing(lines, i + 1, DictSet(d, x.uid, x.msg_no))

\* A faulty variant of get_all_unique_id: with no transport held it returns
\* the empty dict.
get_all_unique_id_lenient(uidlFails) ==
    IF pop3 = 0
    THEN [err |-> NoErr, ret |-> <<>>, calls |-> <<>>]
    ELSE IF ~UidlOk(uidlFails)
    THEN [err |-> Err("error_proto", "uidl"), ret |-> <<>>,
          calls |-> <<Call(pop3, "uidl", 0, FALSE)>>]
    ELSE LET d == ParseListing(UidlLines, 1, <<>>) IN
         [err |-> d.err, ret |-> d.dict, calls |-> <<Call(pop3, "uidl", 0, TRUE)>>]

\* get_all_unique_id, lines 132-133.
get_all_unique_id(uidlFails) ==
    IF pop3 = 0
    THEN [err |-> Err("AttributeError", "uidl"), ret |-> <<>>, calls |-> <<>>]
    ELSE IF ~UidlOk(uidlFails)
    THEN [err |-> Err("error_proto", "uidl"), ret |-> <<>>,
          calls |-> <<Call(pop3, "uidl", 0, FALSE)>>]
    ELSE LET d == ParseListing(UidlLines, 1, <<>>) IN
         [err |-> d.err, ret |-> d.dict, calls |-> <<Call(pop3, "uidl", 0, TRUE)>>]

\* A faulty variant of NewKeys: the tracked ids are not taken out.
NewKeys_untracked(all_uid, old) == Keys(all_uid)

\* line 143: all_uid.keys() - self.old_uid
NewKeys(all_uid, old) == Keys(all_uid) \ old

\* The orders in which a set can be iterated.
Orders(S) ==
    { s \in [1..Cardinality(S) -> S] : \A i, j \in 1..Len(s) : i # j => s[i] # s[j] }

\* get_new_unique_id, lines 142-143; a is get_all_unique_id's outcome and
\* order the iteration order of the key difference.
get_new_unique_id(a, order) ==
    IF a.err # NoErr THEN a
    ELSE [a EXCEPT !.ret = [i \in 1..Len(order) |->
                               <<order[i], Lookup(a.ret, order[i])>>]]

\* get_messages, lines 155-157: the loop over uid_dict.items(); entry number
\* failAt is the one whose retr the transport fails (0: none).
RECURSIVE RetrLoop(_, _, _, _, _)
RetrLoop(uid_dict, i, msg_dict, cs, failAt) ==
    IF i > Len(uid_dict) THEN [err |-> NoErr, msg_dict |-> msg_dict, calls |-> cs]
    ELSE LET uid == uid_dict[i][1]
             msg_no == uid_dict[i][2]
         IN
         IF pop3 = 0
         THEN [err |-> Err("AttributeError", "retr"), msg_dict |-> msg_dict,
               calls |-> cs]
         ELSE LET ok == RetrOk(msg_no, i = failAt)
                  cs2 == Append(cs, Call(pop3, "retr", msg_no, ok))
              IN
              IF ~ok
              THEN [err |-> Err("error_proto", "retr"), msg_dict |-> msg_dict,
                    calls |-> cs2]
              ELSE LET m == parse_email(StoredParts(mailbox[msg_no])) IN
                   IF m.err # NoErr
                   THEN [err |-> m.err, msg_dict |-> msg_dict, calls |-> cs2]
                   ELSE RetrLoop(uid_dict, i + 1,
                                 DictSet(msg_dict, uid, [Body |-> m.Body]),
                                 cs2, failAt)

\* Faulty variants of RecordIds: the ids retrieved so far are recorded even
\* when the loop raised;
RecordIds_partial(old, r) == old \cup Keys(r.msg_dict)

\* = in place of |=;
RecordIds_replace(old, r) ==
    IF r.err = NoErr THEN Keys(r.msg_dict) ELSE old

\* ^= in place of |=.
RecordIds_toggle(old, r) ==
    IF r.err = NoErr
    THEN (old \ Keys(r.msg_dict)) \cup (Keys(r.msg_dict) \ old)
    ELSE old

\* line 158, reached only when the loop raised nothing:
\* self.old_uid |= msg_dict.keys()
RecordIds(old, r) ==
    IF r.err = NoErr THEN old \cup Keys(r.msg_dict) ELSE old

\* get_messages, lines 155-159.
get_messages(uid_dict, failAt) ==
    LET r == RetrLoop(uid_dict, 1, <<>>, <<>>, failAt) IN
    [err |-> r.err,
     ret |-> IF r.err = NoErr THEN r.msg_dict ELSE <<>>,
     calls |-> r.calls,
     old_uid |-> RecordIds(old_uid, r)]

\* get_all_messages / get_new_messages, lines 168 and 177: get_messages of
\* the listing outcome a, whose error (if any) propagates first.
get_messages_of(a, failAt) ==
    IF a.err # NoErr
    THEN [err |-> a.err, ret |-> <<>>, calls |-> a.calls, old_uid |-> old_uid]
    ELSE LET g == get_messages(a.ret, failAt) IN
         [g EXCEPT !.calls = a.calls \o g.calls]

\* delete_messages, lines 179-185: the body is the docstring alone.
delete_messages(uid_list) == [err |-> NoErr, ret |-> <<>>, calls |-> <<>>]

\* undo_delete, line 191.
undo_delete(rsetFails) ==
    IF pop3 = 0
    THEN [err |-> Err("AttributeError", "rset"), ret |-> <<>>, calls |-> <<>>]
    ELSE IF ~RsetOk(rsetFails)
    THEN [err |-> Err("error_proto", "rset"), ret |-> <<>>,
          calls |-> <<Call(pop3, "rset", 0, FALSE)>>]
    ELSE [err |-> NoErr, ret |-> <<>>, calls |-> <<Call(pop3, "rset", 0, TRUE)>>]

\* ------------------------------------------------------------- construction
\* POP3Client.__init__, lines 69-85: no transport, nothing invoked yet.
Constructed ==
    /\ seed = old_uid
    /\ pop3 = 0
    /\ opened = 0
    /\ authenticated = FALSE
    /\ quitIssued = {}
    /\ closed = {}
    /\ enterHandle = 0
    /\ op = "init"
    /\ err = NoErr
    /\ ret = <<>>
    /\ arg = <<>>
    /\ calls = <<>>

\* parse_email not called on its own; no transport method invoked directly.
NoParse == msg = <<>> /\ msg_data = NotCalled
NoTransportCall ==
    func = "" /\ result = NotCalled /\ caller = NotCalled /\ log = <<>>

\* POP3Client.__init__: old_uid is the caller's seed, pop3 is None.
\* Three families of runs: the tracker's inputs (seed, mailbox) under one
\* auth method with the mailbox primitives failing; the auth methods, used
\* directly or as a guarded block, under one mailbox with the session
\* primitives failing; and a server whose listing carries a non-conforming
\* line.
Init ==
    /\ \/ /\ auth_method = "plain"
          /\ faults = {"uidl", "retr", "rset"}
          /\ old_uid \in SUBSET UIDs
          /\ mailbox \in Mailboxes
          /\ junk = <<>>
          /\ ctx = "none"
       \/ /\ auth_method \in {"apop", "rpop", "plain"}
          /\ faults = {"POP3", "auth", "quit"}
          /\ old_uid \in {{}, {<<"c">>}}
          /\ mailbox = << <<"a">> >>
          /\ junk = <<>>
          /\ ctx \in {"none", "with"}
       \/ /\ auth_method = "plain"
          /\ faults = {}
          /\ old_uid \in {{}, {<<"a">>}}
          /\ mailbox \in {<<>>, << <<"a">> >>}
          /\ junk \in { <<l>> : l \in JunkLines }
          /\ ctx = "none"
    /\ Constructed
    /\ NoParse
    /\ NoTransportCall

\* ------------------------------------------------------------- inputs
\* Caller-supplied uid_dict values: {unique_id: message_number, ...}, with
\* items of the server's listing in any order.
Items == { <<mailbox[n], n>> : n \in 1..Len(mailbox) }
Dicts ==
    { d \in UNION { [1..n -> Items] : n \in 0..Len(mailbox) } :
        \A i, j \in 1..Len(d) : i # j => d[i][1] # d[j][1] }

\* Caller-supplied uid_list values: each set of unique ids, in one order.
UidLists ==
    { l \in UNION { [1..n -> UIDs] : n \in 0..Len(UidChars) } : Ascending(l) }

\* ------------------------------------------------------------- operations
\* What the caller sees of an operation: its name, argument and outcome.
Outcome(name, a, r) ==
    /\ op' = name
    /\ arg' = a
    /\ err' = r.err
    /\ ret' = r.ret
    /\ calls' = r.calls

\* The transports on which the issued primitives included quit.
Transport(cs) ==
    /\ quitIssued' = quitIssued \cup QuitHandles(cs)
    /\ closed' = closed \cup QuitOkHandles(cs)

\* The session fields quit() assigns.
Released(r) ==
    /\ pop3' = r.pop3
    /\ authenticated' = IF r.pop3 = 0 THEN FALSE ELSE authenticated
    /\ Transport(r.calls)

\* The session fields connect() assigns.
Connected(r) ==
    /\ pop3' = r.pop3
    /\ opened' = IF r.h = 0 THEN opened ELSE r.h
    /\ authenticated' = IF r.h = 0 THEN authenticated ELSE r.authed /\ r.pop3 # 0
    /\ Transport(r.calls)

\* The client is used directly or inside its guarded block, and followed
\* until control leaves the block.
InUse == ctx \in {"none", "body"}

Connect ==
    /\ InUse
    /\ opened < MaxConnects
    /\ \E ctorFails \in MayFail("POP3"), quitFails \in MayFail("quit"),
          failAt \in MayFailAt("auth", Len(AuthSteps(auth_method))) :
         LET r == connect(ctorFails, failAt, quitFails) IN
         /\ Outcome("connect", <<>>, r)
         /\ Connected(r)
    /\ UNCHANGED <<auth_method, seed, old_uid, mailbox, junk, faults, ctx, enterHandle>>
    /\ UNCHANGED unitVars

Quit ==
    /\ InUse
    /\ \E quitFails \in MayFail("quit") :
         LET r == quit(pop3, quitFails) IN
         /\ Outcome("quit", <<>>, r)
         /\ Released(r)
    /\ UNCHANGED <<auth_method, seed, old_uid, opened, mailbox, junk, faults, ctx,
                   enterHandle>>
    /\ UNCHANGED unitVars

GetAllUniqueId ==
    /\ InUse
    /\ \E uidlFails \in MayFail("uidl") :
         Outcome("get_all_unique_id", <<>>, get_all_unique_id(uidlFails))
    /\ UNCHANGED <<auth_method, seed, old_uid, pop3, opened, authenticated, quitIssued,
                   closed, mailbox, junk, faults, ctx, enterHandle>>
    /\ UNCHANGED unitVars

GetNewUniqueId ==
    /\ InUse
    /\ \E uidlFails \in MayFail("uidl") :
         LET a == get_all_unique_id(uidlFails) IN
         \E order \in Orders(IF a.err = NoErr THEN NewKeys(a.ret, old_uid) ELSE {}) :
            Outcome("get_new_unique_id", <<>>, get_new_unique_id(a, order))
    /\ UNCHANGED <<auth_method, seed, old_uid, pop3, opened, authenticated, quitIssued,
                   closed, mailbox, junk, faults, ctx, enterHandle>>
    /\ UNCHANGED unitVars

GetMessages ==
    /\ InUse
    /\ \E uid_dict \in Dicts :
       \E failAt \in MayFailAt("retr", Len(uid_dict)) :
         LET r == get_messages(uid_dict, failAt) IN
         /\ Outcome("get_messages", uid_dict, r)
         /\ old_uid' = r.old_uid
    /\ UNCHANGED <<auth_method, seed, pop3, opened, authenticated, quitIssued, closed,
                   mailbox, junk, faults, ctx, enterHandle>>
    /\ UNCHANGED unitVars

GetAllMessages ==
    /\ InUse
    /\ \E uidlFails \in MayFail("uidl"), failAt \in MayFailAt("retr", Len(mailbox)) :
         LET r == get_messages_of(get_all_unique_id(uidlFails), failAt) IN
         /\ Outcome("get_all_messages", <<>>, r)
         /\ old_uid' = r.old_uid
    /\ UNCHANGED <<auth_method, seed, pop3, opened, authenticated, quitIssued, closed,
                   mailbox, junk, faults, ctx, enterHandle>>
    /\ UNCHANGED unitVars

GetNewMessages ==
    /\ InUse
    /\ \E uidlFails \in MayFail("uidl"), failAt \in MayFailAt("retr", Len(mailbox)) :
         LET a == get_all_unique_id(uidlFails) IN
         \E order \in Orders(IF a.err = NoErr THEN NewKeys(a.ret, old_uid) ELSE {}) :
            LET r == get_messages_of(get_new_unique_id(a, order), failAt) IN
            /\ Outcome("get_new_messages", <<>>, r)
            /\ old_uid' = r.old_uid
    /\ UNCHANGED <<auth_method, seed, pop3, opened, authenticated, quitIssued, closed,
                   mailbox, junk, faults, ctx, enterHandle>>
    /\ UNCHANGED unitVars

DeleteMessages ==
    /\ InUse
    /\ \E uid_list \in UidLists :
         Outcome("delete_messages", uid_list, delete_messages(uid_list))
    /\ UNCHANGED <<auth_method, seed, old_uid, pop3, opened, authenticated, quitIssued,
                   closed, mailbox, junk, faults, ctx, enterHandle>>
    /\ UNCHANGED unitVars

UndoDelete ==
    /\ InUse
    /\ \E rsetFails \in MayFail("rset") :
         Outcome("undo_delete", <<>>, undo_delete(rsetFails))
    /\ UNCHANGED <<auth_method, seed, old_uid, pop3, opened, authenticated, quitIssued,
                   closed, mailbox, junk, faults, ctx, enterHandle>>
    /\ UNCHANGED unitVars

\* __enter__, lines 93-95: connect(); when it raises, the block is never
\* entered and control leaves the with statement.
Enter ==
    /\ ctx = "with"
    /\ opened < MaxConnects
    /\ \E ctorFails \in MayFail("POP3"), quitFails \in MayFail("quit"),
          failAt \in MayFailAt("auth", Len(AuthSteps(auth_method))) :
         LET r == connect(ctorFails, failAt, quitFails) IN
         /\ Outcome("__enter__", <<>>, r)
         /\ Connected(r)
         /\ enterHandle' = r.h
         /\ ctx' = IF r.err = NoErr THEN "body" ELSE "left"
    /\ UNCHANGED <<auth_method, seed, old_uid, mailbox, junk, faults>>
    /\ UNCHANGED unitVars

\* __exit__, lines 97-98: quit(), on normal completion of the body and on an
\* error propagating out of it (which goes on propagating unless quit raises).
Exit ==
    /\ ctx = "body"
    /\ \E quitFails \in MayFail("quit"), propagating \in BOOLEAN :
         LET r == quit(pop3, quitFails) IN
         /\ propagating => err # NoErr
         /\ op' = "__exit__"
         /\ arg' = <<>>
         /\ err' = IF r.err # NoErr THEN r.err
                   ELSE IF propagating THEN err ELSE NoErr
         /\ ret' = <<>>
         /\ calls' = r.calls
         /\ Released(r)
    /\ ctx' = "left"
    /\ UNCHANGED <<auth_method, seed, old_uid, opened, mailbox, junk, faults, enterHandle>>
    /\ UNCHANGED unitVars

Next ==
    \/ Connect
    \/ Quit
    \/ GetAllUniqueId
    \/ GetNewUniqueId
    \/ GetMessages
    \/ GetAllMessages
    \/ GetNewMessages
    \/ DeleteMessages
    \/ UndoDelete
    \/ Enter
    \/ Exit

Spec == Init /\ [][Next]_vars

\* ------------------------------------------------------------- units
\* A client that is constructed and left alone.
NoSession ==
    /\ auth_method = "plain"
    /\ faults = {}
    /\ old_uid = {}
    /\ mailbox = <<>>
    /\ junk = <<>>
    /\ ctx = "none"
    /\ Constructed

\* A method of POP3_plus_logging / POP3_SSL_plus_logging invoked on its own;
\* log holds the records this invocation gave the logger.
Invoke ==
    /\ \E name \in Methods :
       \E r \in { Returned(v) : v \in Results(name) }
                  \cup { Raised(e) : e \in Raises(name) } :
         LET w == add_POP3_res_logging(name, r) IN
         /\ func' = name
         /\ result' = r
         /\ caller' = w.caller
         /\ log' = w.log
    /\ UNCHANGED <<msg, msg_data>>
    /\ UNCHANGED sessionVars

\* The messages parse_email is given, as the parts msg.walk() yields: each
\* part's payload after get_payload(decode=True) (<<>> for None or b'') and
\* its get_content_charset() ("" for None).  Byte 104 is decodable under the
\* known charsets, byte 255 is not.
PayloadBytes == {104, 255}
Charsets == {"", "utf-8", "x-unknown"}
Payloads == UNION { [1..n -> PayloadBytes] : n \in 0..MaxPayload }
Parts == { [payload |-> b, charset |-> c] : b \in Payloads, c \in Charsets }
Messages == UNION { [1..n -> Parts] : n \in 0..MaxParts }

\* parse_email(msg) called on its own.
ParseEmail ==
    /\ LET m == parse_email(msg) IN
       msg_data' = IF m.err = NoErr THEN Returned(m.Body) ELSE Raised(m.err)
    /\ UNCHANGED <<msg, func, result, caller, log>>
    /\ UNCHANGED sessionVars

ParserInit ==
    /\ NoSession
    /\ msg \in Messages
    /\ msg_data = NotCalled
    /\ NoTransportCall
ParserNext == ParseEmail
ParserSpec == ParserInit /\ [][ParserNext]_vars

WrapperInit == NoSession /\ NoParse /\ NoTransportCall
WrapperNext == Invoke
WrapperSpec == WrapperInit /\ [][WrapperNext]_vars

\* ------------------------------------------------------------- claims
ServerIds == Range(mailbox)
Authenticated == pop3 # 0 /\ authenticated
RetrieveOps == {"get_messages", "get_all_messages", "get_new_messages"}
AuthNames == {"user", "pass_", "apop", "rpop"}

\* The map get_all_unique_id gives in the current state when uidl succeeds.
AllUidNow == get_all_unique_id(FALSE).ret

\* C1: a get_new_unique_id that returns gives exactly the ids of
\* get_all_unique_id that are not tracked, each with the message number
\* get_all_unique_id (and the server) gives it; nothing when all are tracked.
C1_NewIdsAreDifference ==
    (op = "get_new_unique_id" /\ err = NoErr) =>
        /\ Keys(ret) = Keys(AllUidNow) \ old_uid
        /\ \A k \in Keys(ret) : Lookup(ret, k) = Lookup(AllUidNow, k)
        /\ \A n \in 1..Len(mailbox) :
              mailbox[n] \notin old_uid => Lookup(ret, mailbox[n]) = n
        /\ (Keys(AllUidNow) \subseteq old_uid => ret = <<>>)

C1_Witness ==
    /\ op = "get_new_unique_id"
    /\ err = NoErr
    /\ ret # <<>>
    /\ Keys(AllUidNow) \cap old_uid # {}

\* The last primitive of a batch is a retr that raised, or one whose message
\* the parser raised on.
BatchFailed(cs) ==
    /\ Len(cs) > 0
    /\ cs[Len(cs)].name = "retr"
    /\ \/ ~cs[Len(cs)].ok
       \/ parse_email(StoredParts(mailbox[cs[Len(cs)].arg])).err # NoErr

\* C2: when the retr or the parse of a message of the batch raises, old_uid
\* is left as it was before the call and the call raises, returning nothing.
C2_FailedBatchRecordsNothing ==
    [][ (op' \in RetrieveOps /\ BatchFailed(calls')) =>
            (old_uid' = old_uid /\ err' # NoErr /\ ret' = <<>>) ]_vars

C2_Witness ==
    /\ op = "get_messages"
    /\ Len(calls) = 2
    /\ calls[1].ok
    /\ BatchFailed(calls)
    /\ err # NoErr
    /\ arg[1][1] \notin old_uid

\* An authentication primitive of the operation raised.
AuthFailed(cs) == \E i \in 1..Len(cs) : cs[i].name \in AuthNames /\ ~cs[i].ok
FailedAuthStep(cs) ==
    cs[CHOOSE i \in 1..Len(cs) : cs[i].name \in AuthNames /\ ~cs[i].ok]

\* C3: after a connect in which an authentication step failed, the transport
\* is terminated, self.pop3 is None and the error raised is the authentication
\* failure, also when the quit primitive fails during the cleanup.
C3_AuthFailureDisconnects ==
    (op = "connect" /\ AuthFailed(calls)) =>
        /\ pop3 = 0
        /\ FailedAuthStep(calls).h \in closed
        /\ err = Err("error_proto", FailedAuthStep(calls).name)

\* C4: quit() never raises because of the client's own state: invoked with
\* no transport held (never connected, already quit, connect failed) it
\* returns without an error.
C4_QuitSafeInAnyState ==
    (op = "quit" /\ calls = <<>>) => err = NoErr

\* C5: when control has left the guarded block, the transport __enter__
\* opened has had the quit primitive issued on it.
C5_BlockQuitsItsTransport ==
    (ctx = "left" /\ enterHandle # 0) => enterHandle \in quitIssued

\* C6 as stated: after a successful get_all_messages the tracked set equals
\* the server's full unique-id set, whatever the initial tracked set.
C6_TrackedEqualsServerIds ==
    (op = "get_all_messages" /\ err = NoErr) => old_uid = ServerIds

\* C6 (amended): a successful get_all_messages leaves the tracked set equal
\* to the union of the tracked set before the call and the server's full
\* unique-id set.
C6_TrackedIsUnionWithServerIds ==
    [][ (op' = "get_all_messages" /\ err' = NoErr) =>
            old_uid' = old_uid \cup ServerIds ]_vars

C6_Witness ==
    /\ op = "get_all_messages"
    /\ err = NoErr
    /\ Len(ret) = 2
    /\ ~(seed \subseteq ServerIds)

\* C7: no step of any public operation, succeeding or failing, removes an id
\* from old_uid.
C7_TrackerOnlyGrows == [][ old_uid \subseteq old_uid' ]_vars

C7_Witness ==
    /\ op = "get_new_messages"
    /\ err = NoErr
    /\ ret # <<>>
    /\ old_uid \ Keys(ret) # {}

\* C8: old_uid changes only in a step of get_messages, get_all_messages or
\* get_new_messages that returns normally.
C8_OnlySuccessfulRetrieveRecords ==
    [][ old_uid' # old_uid => (op' \in RetrieveOps /\ err' = NoErr) ]_vars

C8_Witness ==
    /\ op = "get_all_messages"
    /\ err # NoErr
    /\ Len(calls) = 3
    /\ calls[2].ok
    /\ old_uid = {}

\* C9: a successful get_messages over ids that are all tracked already leaves
\* old_uid unchanged, and recording the ids of a successful get_messages a
\* second time leaves old_uid as the first recording left it.
C9_RecordIsIdempotent ==
    [][ (op' = "get_messages" /\ err' = NoErr) =>
            /\ (Keys(arg') \subseteq old_uid => old_uid' = old_uid)
            /\ RecordIds(old_uid', [err |-> NoErr, msg_dict |-> ret']) = old_uid'
      ]_vars

C9_Witness ==
    /\ op = "get_messages"
    /\ err = NoErr
    /\ Len(arg) = 2
    /\ Keys(arg) \subseteq seed

\* The dele primitives the operation issued for message number n.
DeleCalls(cs, n) == { i \in 1..Len(cs) : cs[i].name = "dele" /\ cs[i].arg = n }

\* C10: delete_messages(uid_list) in the Authenticated state issues the
\* delete primitive once, with the current message number, for each id of
\* uid_list that is on the server.
C10_DeleteIssuesDele ==
    (op = "delete_messages" /\ Authenticated) =>
        \A n \in 1..Len(mailbox) :
            mailbox[n] \in Range(arg) => Cardinality(DeleCalls(calls, n)) = 1

\* The listing call reached the parsing of the lines: uidl returned them.
ListingParsed(cs) == Len(cs) = 1 /\ cs[1].name = "uidl" /\ cs[1].ok

\* C11 as stated: get_all_unique_id cuts each listing line at its first
\* space into "<message_number> <unique_id>" and maps unique_id to
\* message_number; when a line has no space or no decimal number before it
\* the call raises, returns no map and leaves old_uid unchanged.
C11_ListingSplitsOnFirstSpace ==
    [][ (op' = "get_all_unique_id" /\ ListingParsed(calls')) =>
          LET cut(l) == CHOOSE i \in 1..Len(l) :
                            l[i] = " " /\ \A j \in 1..(i - 1) : l[j] # " "
              number(l) == SubSeq(l, 1, cut(l) - 1)
              id(l) == SubSeq(l, cut(l) + 1, Len(l))
              wellFormed(l) == (\E i \in 1..Len(l) : l[i] = " ") /\ IntOk(number(l))
          IN
          /\ old_uid' = old_uid
          /\ IF \A n \in 1..Len(UidlLines) : wellFormed(UidlLines[n])
             THEN /\ err' = NoErr
                  /\ Keys(ret') = { id(UidlLines[n]) : n \in 1..Len(UidlLines) }
                  /\ \A n \in 1..Len(UidlLines) :
                        Lookup(ret', id(UidlLines[n])) = StrToInt(number(UidlLines[n]))
             ELSE err' # NoErr /\ ret' = <<>>
      ]_vars

\* C11 (amended): get_all_unique_id cuts each listing line at every space
\* and takes the line only when that gives exactly two pieces, the first a
\* decimal number: the pieces map unique_id to message_number; when a line
\* has no space, more than one space or no decimal number before its space
\* the call raises, returns no map and leaves old_uid unchanged.
C11_ListingNeedsExactlyOneSpace ==
    [][ (op' = "get_all_unique_id" /\ ListingParsed(calls')) =>
          LET spaces(l) == { i \in 1..Len(l) : l[i] = " " }
              cut(l) == CHOOSE i \in spaces(l) : TRUE
              number(l) == SubSeq(l, 1, cut(l) - 1)
              id(l) == SubSeq(l, cut(l) + 1, Len(l))
              wellFormed(l) == Cardinality(spaces(l)) = 1 /\ IntOk(number(l))
          IN
          /\ old_uid' = old_uid
          /\ IF \A n \in 1..Len(UidlLines) : wellFormed(UidlLines[n])
             THEN /\ err' = NoErr
                  /\ Keys(ret') = { id(UidlLines[n]) : n \in 1..Len(UidlLines) }
                  /\ \A n \in 1..Len(UidlLines) :
                        Lookup(ret', id(UidlLines[n])) = StrToInt(number(UidlLines[n]))
             ELSE err' # NoErr /\ ret' = <<>>
      ]_vars

C11_Witness ==
    /\ op = "get_all_unique_id"
    /\ ListingParsed(calls)
    /\ Len(UidlLines) = 2
    /\ _parse_unique_id(UidlLines[1]).err = NoErr
    /\ UidlLines[2] = <<"1", " ", "a", " ", "b">>
    /\ err = Err("ValueError", "_parse_unique_id")
    /\ ret = <<>>

\* C12: when a wrapped method raises poplib.error_proto, whatever the type
\* of its message argument, the logger is given the error's message at error
\* level and the caller gets that same error; when it raises any other
\* error, the caller gets that same error after it was logged.
C12_ErrorsAreLoggedAndReraised ==
    (Instrumented(func) /\ result.kind = "raised") =>
        /\ caller = result
        /\ Len(log) = 1
        /\ log[1].level = "ERROR"
        /\ (result.v.type = "error_proto" => log[1].text.v = result.v.args[1].v)

\* C19: each of the transport methods the client uses, when the method
\* itself returns, gives the caller the method's result unchanged, and the
\* logger exactly one info record tagged with the method's name.
C19_SuccessIsReturnedAndLoggedOnce ==
    (func \in ClientPrimitives /\ result.kind = "returned") =>
        /\ caller = result
        /\ Len(log) = 1
        /\ log[1].level = "INFO"
        /\ log[1].tag = func

\* The parts of msg whose payload is not empty.
WithPayload == LET NonEmpty(part) == part.payload # <<>> IN SelectSeq(msg, NonEmpty)

\* C13: parse_email returns for every message and never raises, also when a
\* part's bytes are not decodable under its charset and when its charset is
\* unknown; in a part's text each undecodable byte is replaced by a
\* placeholder, the decodable ones staying where they were.
C13_ParserIsTotal ==
    msg_data.kind # "none" =>
        /\ msg_data.kind = "returned"
        /\ \A i \in 1..Len(msg_data.v) :
              WithPayload[i].charset # "" =>
                 /\ Len(msg_data.v[i].data.v) = Len(WithPayload[i].payload)
                 /\ \A j \in 1..Len(WithPayload[i].payload) :
                       Decodable(WithPayload[i].payload[j]) =>
                           msg_data.v[i].data.v[j] = WithPayload[i].payload[j]

\* C14: the Body parse_email returns has one BodyPart for each part with a
\* non-empty payload and none for the others, in the order of the traversal,
\* and no BodyPart's data is empty.
C14_BodyPartsInOrderNoneEmpty ==
    msg_data.kind = "returned" =>
        /\ Len(msg_data.v) = Len(WithPayload)
        /\ \A i \in 1..Len(msg_data.v) :
              /\ IF WithPayload[i].charset = ""
                 THEN msg_data.v[i].data = Bytes(WithPayload[i].payload)
                 ELSE /\ msg_data.v[i].data.kind = "str"
                      /\ SelectSeq(msg_data.v[i].data.v, Decodable)
                            = SelectSeq(WithPayload[i].payload, Decodable)
              /\ msg_data.v[i].data.v # <<>>

\* The transports the client constructed on which quit was never issued.
NotQuit == { h \in 1..opened : h \notin quitIssued }

\* C15: after any sequence of connect and quit calls, connect while connected
\* included, at most one transport the client constructed has not had quit
\* issued on it, and that one is the transport self.pop3 holds.
C15_AtMostOneTransportNotQuit ==
    op \in {"init", "connect", "quit"} =>
        /\ Cardinality(NotQuit) <= 1
        /\ NotQuit \subseteq {pop3}

\* C16: a connect (also the one of __enter__) whose transport was
\* constructed issues on it, before anything else, the authentication
\* primitives auth_method fixes: apop(user, password) alone for "apop";
\* rpop(user) then pass_(password) for "rpop"; user(user) then
\* pass_(password) for any other value; a step is issued only when the one
\* before it succeeded, and a connect that returns leaves self.pop3 set to
\* the authenticated transport.
C16_AuthStepsInOrder ==
    (op \in {"connect", "__enter__"} /\ err # Err("OSError", "POP3")) =>
        LET expected ==
                CASE auth_method = "apop" ->
                         << <<"apop", <<"self.user", "self.password">>>> >>
                  [] auth_method = "rpop" ->
                         << <<"rpop", <<"self.user">>>>,
                            <<"pass_", <<"self.password">>>> >>
                  [] OTHER ->
                         << <<"user", <<"self.user">>>>,
                            <<"pass_", <<"self.password">>>> >>
        IN
        \E n \in 1..Len(expected) :
            /\ Len(calls) >= n
            /\ \A i \in 1..n :
                  /\ calls[i].name = expected[i][1]
                  /\ calls[i].arg = expected[i][2]
                  /\ calls[i].h = opened
            /\ \A i \in 1..(n - 1) : calls[i].ok
            /\ n < Len(expected) => ~calls[n].ok
            /\ \A i \in (n + 1)..Len(calls) : calls[i].name \notin AuthNames
            /\ err = NoErr =>
                  /\ n = Len(expected)
                  /\ Len(calls) = n
                  /\ calls[n].ok
                  /\ pop3 = opened
                  /\ Authenticated

C16_Witness ==
    /\ op = "connect"
    /\ auth_method = "rpop"
    /\ err = NoErr
    /\ Len(calls) = 2
    /\ calls[2].name = "pass_"
    /\ pop3 = 2

\* C17: a get_messages(uid_dict) that returns issued retr once for each
\* entry of uid_dict, with the entry's message number and in the entries'
\* order, and nothing else; the map it returns has the keys of uid_dict, and
\* old_uid is old_uid before the call together with those keys.
C17_GetMessagesRetrievesEachEntry ==
    [][ (op' = "get_messages" /\ err' = NoErr) =>
            /\ Len(calls') = Len(arg')
            /\ \A i \in 1..Len(arg') :
                  calls'[i].name = "retr" /\ calls'[i].arg = arg'[i][2]
            /\ Keys(ret') = Keys(arg')
            /\ old_uid' = old_uid \cup Keys(arg')
      ]_vars

C17_Witness ==
    /\ op = "get_messages"
    /\ err = NoErr
    /\ Len(arg) = 2
    /\ arg[1][2] = 2
    /\ Keys(arg) \cap seed # {}
    /\ seed \ Keys(arg) # {}

\* C18: every retr a get_new_messages issues is for a unique id that is not
\* in old_uid when the call starts; the ids a get_new_messages returns were
\* not in old_uid and are in it afterwards, and no step takes an id out of
\* old_uid, so a later get_new_messages does not return them again; a
\* get_new_messages that returns right after one that returned gives the
\* empty map.
C18_DeltaRetrieval ==
    [][ /\ old_uid \subseteq old_uid'
        /\ op' = "get_new_messages" =>
              /\ \A i \in 1..Len(calls') :
                    calls'[i].name = "retr" => mailbox[calls'[i].arg] \notin old_uid
              /\ err' = NoErr =>
                    /\ Keys(ret') \cap old_uid = {}
                    /\ Keys(ret') \subseteq old_uid'
              /\ (op = "get_new_messages" /\ err = NoErr /\ err' = NoErr) =>
                    ret' = <<>>
      ]_vars

C18_Witness ==
    /\ op = "get_new_messages"
    /\ err = NoErr
    /\ ret = <<>>
    /\ Len(calls) = 1
    /\ Len(mailbox) = 2
    /\ seed = {<<"a">>}
    /\ ServerIds \subseteq old_uid

\* The operations that address the mailbox through self.pop3.
MailboxOps ==
    {"get_all_unique_id", "get_new_unique_id", "get_messages", "get_all_messages",
     "get_new_messages", "undo_delete"}

\* C20: a mailbox operation (get_messages with a non-empty map) invoked
\* while self.pop3 is None raises, issues no transport primitive, and leaves
\* old_uid and the session (self.pop3, the transports and whether they were
\* quit) as they were.
C20_DisconnectedOpsFail ==
    [][ (pop3 = 0 /\ op' \in MailboxOps /\ (op' = "get_messages" => arg' # <<>>)) =>
            /\ err' # NoErr
            /\ calls' = <<>>
            /\ old_uid' = old_uid
            /\ pop3' = 0
            /\ UNCHANGED <<opened, authenticated, quitIssued, closed>>
      ]_vars

C20_Witness ==
    /\ op = "get_new_messages"
    /\ pop3 = 0
    /\ closed # {}
    /\ mailbox # <<>>
    /\ err = Err("AttributeError", "uidl")
    /\ calls = <<>>

====
